---- MODULE Spec2Model ----
(***************************************************************************)
(* A model of the Restricted Boltzmann Machine engine of src/RBM.js: the   *)
(* weight matrix, the two sampling operations and CD-n training.           *)
(*                                                                         *)
(* Numbers.  A JavaScript number is modelled as a record: a finite value   *)
(* in fixed point (thousandths), +Infinity, -Infinity or NaN; null is the  *)
(* value _setInitWeights stores in weights[0][0].  The arithmetic follows  *)
(* IEEE-754 on the non-finite values (Infinity * 0 = NaN, x / 0 =          *)
(* +-Infinity, log(0) = -Infinity, log(x < 0) = NaN, NaN < 0 is false).    *)
(*                                                                         *)
(* Arrays.  A JavaScript array a of length n is the sequence <<a[0], ...,  *)
(* a[n-1]>>: index i of the source is index i + 1 here.                    *)
(***************************************************************************)
EXTENDS Integers, Sequences, FiniteSets, TLC

\* Bounds of the model.
MaxCalls == 2
MaxRows == 2
MaxVisible == 1
MaxHidden == 1
MaxGibbs == 2

\* Fixed-point unit: the finite number x is held as the integer x * Scale.
Scale == 10 * 10 * 10

--------------------------------------------------------------------------
\* JavaScript numbers

Fin(n) == [k |-> "fin", v |-> n]
PosInf == [k |-> "inf", v |-> 1]
NegInf == [k |-> "inf", v |-> -1]
NaN == [k |-> "nan", v |-> 0]
Null == [k |-> "null", v |-> 0]

One == Fin(Scale)
Zero == Fin(0)

IsFinite(a) == a.k = "fin"

\* ToNumber: null converts to 0 in arithmetic.
ToNumber(a) == IF a.k = "null" THEN Zero ELSE a

Sign(n) == IF n > 0 THEN 1 ELSE IF n < 0 THEN -1 ELSE 0

Abs(n) == IF n < 0 THEN -n ELSE n

\* a + b
Add(a0, b0) ==
  LET a == ToNumber(a0)
      b == ToNumber(b0)
  IN  IF a.k = "nan" \/ b.k = "nan" THEN NaN
      ELSE IF a.k = "inf" /\ b.k = "inf"
        THEN IF a.v = b.v THEN a ELSE NaN
      ELSE IF a.k = "inf" THEN a
      ELSE IF b.k = "inf" THEN b
      ELSE Fin(a.v + b.v)

\* -a
Neg(a0) ==
  LET a == ToNumber(a0)
  IN  IF a.k = "nan" THEN NaN
      ELSE IF a.k = "inf" THEN [k |-> "inf", v |-> -a.v]
      ELSE Fin(-a.v)

\* a - b
Sub(a, b) == Add(a, Neg(b))

\* The fixed-point quotient n / d of two integers, truncated toward zero.
TruncDiv(n, d) == Sign(n) * Sign(d) * (Abs(n) \div Abs(d))

\* a * b
Mul(a0, b0) ==
  LET a == ToNumber(a0)
      b == ToNumber(b0)
  IN  IF a.k = "nan" \/ b.k = "nan" THEN NaN
      ELSE IF a.k = "inf" \/ b.k = "inf"
        THEN IF Sign(a.v) * Sign(b.v) = 0 THEN NaN
             ELSE [k |-> "inf", v |-> Sign(a.v) * Sign(b.v)]
      ELSE Fin(TruncDiv(a.v * b.v, Scale))

\* a / b
Div(a0, b0) ==
  LET a == ToNumber(a0)
      b == ToNumber(b0)
  IN  IF a.k = "nan" \/ b.k = "nan" THEN NaN
      ELSE IF a.k = "inf"
        THEN IF b.k = "inf" THEN NaN
             ELSE [k |-> "inf", v |-> a.v * (IF b.v < 0 THEN -1 ELSE 1)]
      ELSE IF b.k = "inf" THEN Zero
      ELSE IF b.v = 0
        THEN IF a.v = 0 THEN NaN ELSE [k |-> "inf", v |-> Sign(a.v)]
      ELSE Fin(TruncDiv(a.v * Scale, b.v))

\* a < 0 (false for NaN)
Lt0(a0) ==
  LET a == ToNumber(a0)
  IN  (a.k = "fin" /\ a.v < 0) \/ (a.k = "inf" /\ a.v < 0)

\* The truthiness of a number: neither 0 nor NaN.
Truthy(a) == ~(a.k = "null" \/ a.k = "nan" \/ (a.k = "fin" /\ a.v = 0))

\* ln 2 in fixed point.
Ln2 == 693

\* ln m for 1 <= m < 2, by the series 2 (z + z^3/3 + z^5/5), z = (m-1)/(m+1).
LnMantissa(m) ==
  LET z == ((m - Scale) * Scale) \div (m + Scale)
      z3 == (z * z * z) \div (Scale * Scale)
      z5 == (z3 * z * z) \div (Scale * Scale)
  IN  2 * (z + z3 \div 3 + z5 \div 5)

\* ln x for a finite x > 0, reducing x to a mantissa in [1, 2).
RECURSIVE LnPos(_)
LnPos(x) ==
  IF x >= 2 * Scale THEN Ln2 + LnPos(x \div 2)
  ELSE IF x < Scale THEN LnPos(2 * x) - Ln2
  ELSE LnMantissa(x)

\* Math.log
Log(a0) ==
  LET a == ToNumber(a0)
  IN  IF a.k = "nan" THEN NaN
      ELSE IF a.k = "inf" THEN IF a.v > 0 THEN PosInf ELSE NaN
      ELSE IF a.v < 0 THEN NaN
      ELSE IF a.v = 0 THEN NegInf
      ELSE Fin(LnPos(a.v))

\* 1 / (1 + e^-x) at x = 0, 1, ..., 6 in fixed point.
LogisticKnots == <<500, 731, 881, 953, 982, 993, 998>>

\* The logistic function of a finite x >= 0: linear between the knots, and
\* below 1 for every finite x of the model's range.
LogisticPos(x) ==
  LET q == x \div Scale
      r == x % Scale
  IN  IF q >= Len(LogisticKnots) - 1 THEN Scale - 1
      ELSE LogisticKnots[q + 1]
           + ((LogisticKnots[q + 2] - LogisticKnots[q + 1]) * r) \div Scale

\* _logistic
logistic(a0) ==
  LET a == ToNumber(a0)
  IN  IF a.k = "nan" THEN NaN
      ELSE IF a.k = "inf" THEN IF a.v > 0 THEN One ELSE Zero
      ELSE IF a.v >= 0 THEN Fin(LogisticPos(a.v))
      ELSE Fin(Scale - LogisticPos(-a.v))

--------------------------------------------------------------------------
\* Values of the engine

\* this.weights: undefined, or an array of arrays (field m).
Undefined == [set |-> FALSE, m |-> <<>>]

Matrix(m) == [set |-> TRUE, m |-> m]

\* An argument of a sampling call: an array (field items), or something that
\* is not an array.
Arr(items) == [isArray |-> TRUE, items |-> items]

NotArray == [isArray |-> FALSE, items |-> <<>>]

\* What a call does: it returns a value, or throws.
Returned(value) == [status |-> "ok", value |-> value]

\* throw new Error('Invalid parameter')
InvalidParameter == [status |-> "InvalidArgument", value |-> <<>>]

\* The TypeError a read of a property of undefined, or a spread of undefined, throws.
TypeError == [status |-> "TypeError", value |-> <<>>]

\* The states logistic(value) > Math.random() can give: Math.random() is in
\* [0, 1), and a comparison with NaN is false.
Bernoulli(p) ==
  IF p.k = "nan" THEN {0}
  ELSE IF p.k = "inf" THEN IF p.v > 0 THEN {1} ELSE {0}
  ELSE IF p.v >= Scale THEN {1}
  ELSE IF p.v <= 0 THEN {0}
  ELSE {0, 1}

\* The arrays of {state, probability} objects a sampling loop can push for
\* the probabilities probs.
Units(probs) ==
  { [t \in 1..Len(probs) |-> [state |-> s[t], probability |-> probs[t]]] :
      s \in { f \in [1..Len(probs) -> {0, 1}] :
                \A t \in 1..Len(probs) : f[t] \in Bernoulli(probs[t]) } }

\* The inner loop of getHiddenLayer for hidden unit i: the activation energy
\* summed over nodes[j], j = from .. nodes.length - 1, skipping negative nodes.
RECURSIVE HiddenEnergy(_, _, _, _)
HiddenEnergy(m, nodes, i, from) ==
  IF from >= Len(nodes) THEN Zero
  ELSE LET rest == HiddenEnergy(m, nodes, i, from + 1)
           term == Mul(m[from + 1][i + 1], nodes[from + 1])
       IN  IF Lt0(nodes[from + 1]) THEN rest ELSE Add(term, rest)

\* The activation probabilities getHiddenLayer computes: one per hidden unit
\* i = 1 .. weights[0].length - 1.
HiddenProbabilities(m, visibleNodes) ==
  LET nodes == <<One>> \o visibleNodes
  IN  [i \in 1..(Len(m[1]) - 1) |-> logistic(HiddenEnergy(m, nodes, i, 0))]

\* getHiddenLayer without the test visibleNodes.length === 0.
getHiddenLayerEmptyAllowed(w, visibleNodes) ==
  IF ~visibleNodes.isArray THEN {InvalidParameter}
  ELSE IF ~w.set THEN {TypeError}
  ELSE IF Len(visibleNodes.items) # Len(w.m) - 1 THEN {InvalidParameter}
  ELSE { Returned(u) : u \in Units(HiddenProbabilities(w.m, visibleNodes.items)) }

\* getHiddenLayer: the set of its possible outcomes.
getHiddenLayer(w, visibleNodes) ==
  IF ~visibleNodes.isArray THEN {InvalidParameter}
  ELSE IF ~w.set THEN {TypeError}
  ELSE IF Len(visibleNodes.items) # Len(w.m) - 1 \/ Len(visibleNodes.items) = 0
    THEN {InvalidParameter}
  ELSE { Returned(u) : u \in Units(HiddenProbabilities(w.m, visibleNodes.items)) }

\* The inner loop of getVisibleLayer for visible unit i: the activation
\* energy summed over nodes[j], j = from .. nodes.length - 1.
RECURSIVE VisibleEnergy(_, _, _, _)
VisibleEnergy(m, nodes, i, from) ==
  IF from >= Len(nodes) THEN Zero
  ELSE Add(Mul(m[i + 1][from + 1], nodes[from + 1]),
           VisibleEnergy(m, nodes, i, from + 1))

\* The activation probabilities getVisibleLayer computes: one per visible
\* unit i = 1 .. weights.length - 1.
VisibleProbabilities(m, hiddenNodes) ==
  LET nodes == <<One>> \o hiddenNodes
  IN  [i \in 1..(Len(m) - 1) |-> logistic(VisibleEnergy(m, nodes, i, 0))]

\* getVisibleLayer: the set of its possible outcomes.
getVisibleLayer(w, hiddenNodes) ==
  IF ~hiddenNodes.isArray THEN {InvalidParameter}
  ELSE IF ~w.set THEN {TypeError}
  ELSE IF Len(hiddenNodes.items) # Len(w.m[1]) - 1 \/ Len(hiddenNodes.items) = 0
    THEN {InvalidParameter}
  ELSE { Returned(u) : u \in Units(VisibleProbabilities(w.m, hiddenNodes.items)) }

--------------------------------------------------------------------------
\* Weight initialisation

\* standardDeviation of the regular weights, 0.01, in fixed point.
StandardDeviation == 10

\* rand / 6 in _gaussianRand, the mean of six draws of Math.random(), each in
\* [0, 1): the smallest and the largest value of the fixed-point range.
UniformMeans == {0, Scale - 1}

\* _gaussianRand: the values it can return.
gaussianRand(standardDeviation) ==
  { Fin(-standardDeviation + TruncDiv(u * standardDeviation * 2, Scale)) :
      u \in UniformMeans }

\* Math.log(p / (1 - p)), the visible bias weight for the proportion p.
LogOdds(p) == Log(Div(p, Sub(One, p)))

\* _setInitWeights: the matrices it can build, (proportions.length + 1) rows
\* of (numberOfHiddenNodes + 1) cells; draw[<<i, j>>] is the value of
\* _gaussianRand for the cell (i, j).
setInitWeights(proportionOfVisibleNodes, numberOfHiddenNodes) ==
  LET V == Len(proportionOfVisibleNodes)
      H == numberOfHiddenNodes
      Cell(i, j, draw) ==
        IF i = 0 /\ j = 0 THEN Null
        ELSE IF i = 0 THEN Zero
        ELSE IF j = 0 THEN LogOdds(proportionOfVisibleNodes[i])
        ELSE draw[<<i, j>>]
  IN  { [i \in 1..(V + 1) |-> [j \in 1..(H + 1) |-> Cell(i - 1, j - 1, draw)]] :
          draw \in [(1..V) \X (1..H) -> gaussianRand(StandardDeviation)] }

\* proportions[i] after the loop over the rows j = from .. dataset.length - 1:
\* a row too short reads undefined, and the sum is NaN.
RECURSIVE SumColumn(_, _, _)
SumColumn(dataset, i, from) ==
  IF from > Len(dataset) THEN Zero
  ELSE Add(IF i <= Len(dataset[from]) THEN dataset[from][i] ELSE NaN,
           SumColumn(dataset, i, from + 1))

\* The proportions train computes: one per value of dataset[0].
Proportions(dataset) ==
  [i \in 1..Len(dataset[1]) |->
     Div(SumColumn(dataset, i, 1), Fin(Len(dataset) * Scale))]

\* The guard with !this.weights dropped: a hidden count alone rebuilds.
NeedsInitWheneverCountGiven(w, hiddenNodes) == hiddenNodes # 0

\* The guard with hiddenNodes dropped: missing weights alone build.
NeedsInitWithoutCount(w, hiddenNodes) == ~w.set

\* !this.weights && hiddenNodes
NeedsInit(w, hiddenNodes) == ~w.set /\ hiddenNodes # 0

\* The first block of train: the weights after it, or the TypeError of
\* dataset[0].length on an empty dataset.
TrainInit(w, dataset, hiddenNodes) ==
  IF NeedsInit(w, hiddenNodes)
    THEN IF Len(dataset) = 0
           THEN {[status |-> "TypeError", weights |-> w, initialized |-> FALSE]}
           ELSE {[status |-> "ok", weights |-> Matrix(m), initialized |-> TRUE] :
                   m \in setInitWeights(Proportions(dataset), hiddenNodes)}
    ELSE {[status |-> "ok", weights |-> w, initialized |-> FALSE]}

--------------------------------------------------------------------------
\* Training

\* units.map((e) => e.probability): the probabilities of a layer.
Probabilities(units) == [t \in 1..Len(units) |-> units[t].probability]

\* The outcomes of a sampling call as far as train reads them: of the
\* positive hidden layer and of every visible reconstruction train reads the
\* probabilities only, never the states.
ReadProbabilities(outcomes) ==
  { [status |-> o.status, probability |-> Probabilities(o.value)] : o \in outcomes }

\* visibleLayerNeg.map((e) => e.probability || e) on the objects of a
\* reconstruction, given by their probabilities: the probability, or the
\* object itself when the probability is 0 or NaN; an object in arithmetic or
\* in a comparison is NaN.
MapProbability(probability) ==
  [t \in 1..Len(probability) |->
     IF Truthy(probability[t]) THEN probability[t] ELSE NaN]

\* hiddenLayerNeg.map((e) => e.state)
MapState(units) ==
  [t \in 1..Len(units) |-> IF units[t].state = 1 THEN One ELSE Zero]

\* What the Gibbs loop leaves in visibleLayerNeg and hiddenLayerNeg (their
\* probabilities), or what it throws.
ChainEnd(status, visibleLayerNeg, hiddenLayerNeg) ==
  [status |-> status, visibleLayerNeg |-> visibleLayerNeg,
   hiddenLayerNeg |-> hiddenLayerNeg]

\* The loop of the negative phase with `steps` >= 1 iterations left; input is
\* the array the next iteration passes to getHiddenLayer.
RECURSIVE GibbsChain(_, _, _)
GibbsChain(w, input, steps) ==
  UNION {
    IF h.status # "ok" THEN {ChainEnd(h.status, <<>>, <<>>)}
    ELSE UNION {
           IF v.status # "ok" THEN {ChainEnd(v.status, <<>>, <<>>)}
           ELSE IF steps <= 1
             THEN {ChainEnd("ok", v.probability, Probabilities(h.value))}
           ELSE GibbsChain(w, MapProbability(v.probability), steps - 1) :
           v \in ReadProbabilities(getVisibleLayer(w, Arr(MapState(h.value)))) } :
    h \in getHiddenLayer(w, Arr(input)) }

\* (visibleLayerPos[i] ? 1 : 0)
Binarized(x) == IF Truthy(x) THEN One ELSE Zero

\* const positive, for the augmented indices i and j (1-based here).
Positive(visibleLayerPos, hiddenLayerPos, i, j) ==
  Mul(visibleLayerPos[i], hiddenLayerPos[j])

\* const negative
Negative(visibleLayerNeg, hiddenLayerNeg, i, j) ==
  Mul(visibleLayerNeg[i], hiddenLayerNeg[j])

\* The sum of a sequence of numbers.
RECURSIVE SumSeq(_)
SumSeq(xs) == IF Len(xs) = 0 THEN Zero ELSE Add(xs[1], SumSeq(Tail(xs)))

\* What one pass of the inner loop adds to error.
ErrorTerm(visibleLayerPos, visibleLayerNeg, hiddenLayerNeg, i, j) ==
  LET d == Sub(Binarized(visibleLayerPos[i]),
               Negative(visibleLayerNeg, hiddenLayerNeg, i, j))
  IN  Mul(d, d)

\* error after the two loops over the weights.
RowError(visibleLayerPos, hiddenLayerPos, visibleLayerNeg, hiddenLayerNeg) ==
  SumSeq([i \in 1..Len(visibleLayerPos) |->
            IF Lt0(visibleLayerPos[i]) THEN Zero
            ELSE SumSeq([j \in 1..Len(hiddenLayerPos) |->
                           ErrorTerm(visibleLayerPos, visibleLayerNeg,
                                     hiddenLayerNeg, i, j)])])

\* The last index the inner loop of the learning rule reaches in a row.
LastColumn(hiddenLayerPos) == Len(hiddenLayerPos)

\* The learning rule without the test visibleLayerPos[i] < 0.
LearningRuleNoSkip(m, visibleLayerPos, hiddenLayerPos, visibleLayerNeg, hiddenLayerNeg, learningRate) ==
  [i \in 1..Len(m) |->
     [j \in 1..Len(m[i]) |->
        Add(m[i][j],
            Mul(learningRate,
                Sub(Positive(visibleLayerPos, hiddenLayerPos, i, j),
                    Negative(visibleLayerNeg, hiddenLayerNeg, i, j))))]]

\* this.weights after the two loops of the learning rule.  Row i is left alone
\* when visibleLayerPos[i] < 0; a cell written past the end of a row would
\* lengthen the row (undefined + x is NaN).
LearningRule(m, visibleLayerPos, hiddenLayerPos, visibleLayerNeg, hiddenLayerNeg, learningRate) ==
  [i \in 1..Len(m) |->
     IF i > Len(visibleLayerPos) \/ Lt0(visibleLayerPos[i]) THEN m[i]
     ELSE LET width == IF LastColumn(hiddenLayerPos) > Len(m[i])
                         THEN LastColumn(hiddenLayerPos) ELSE Len(m[i])
          IN  [j \in 1..width |->
                 IF j > LastColumn(hiddenLayerPos) THEN m[i][j]
                 ELSE Add(IF j <= Len(m[i]) THEN m[i][j] ELSE NaN,
                          Mul(learningRate,
                              Sub(Positive(visibleLayerPos, hiddenLayerPos, i, j),
                                  Negative(visibleLayerNeg, hiddenLayerNeg, i, j))))]]

\* What the callback of dataset.forEach did for one row: the probabilities of
\* its three sampled layers after the biases were added (the learning rule
\* reads nothing else of them), the weights before and after, and the error
\* it pushed; or the error it threw, the weights untouched.
RowDone(data, before, after, hiddenLayerPos, visibleLayerNeg, hiddenLayerNeg, error) ==
  [status |-> "ok", data |-> data, before |-> before, after |-> after,
   hiddenLayerPos |-> hiddenLayerPos, visibleLayerNeg |-> visibleLayerNeg,
   hiddenLayerNeg |-> hiddenLayerNeg, error |-> error]

RowThrew(status, data, before) ==
  [status |-> status, data |-> data, before |-> before, after |-> before,
   hiddenLayerPos |-> <<>>, visibleLayerNeg |-> <<>>, hiddenLayerNeg |-> <<>>,
   error |-> Zero]

\* The probability of the bias unit { state: 1, probability: 1 }.
BiasProbability == One

\* The callback of dataset.forEach on the row data: its possible outcomes.
TrainRow(w, data, learningRate, gibbsSteps) ==
  UNION {
    IF pos.status # "ok" THEN {RowThrew(pos.status, data, w.m)}
    ELSE IF gibbsSteps <= 0 THEN {RowThrew("TypeError", data, w.m)}
    ELSE { IF neg.status # "ok" THEN RowThrew(neg.status, data, w.m)
           ELSE LET visibleLayerPos == <<One>> \o data
                    hiddenLayerPos == <<BiasProbability>> \o pos.probability
                    visibleLayerNeg == <<BiasProbability>> \o neg.visibleLayerNeg
                    hiddenLayerNeg == <<BiasProbability>> \o neg.hiddenLayerNeg
                IN  RowDone(data, w.m,
                            LearningRule(w.m, visibleLayerPos, hiddenLayerPos,
                                         visibleLayerNeg, hiddenLayerNeg,
                                         learningRate),
                            hiddenLayerPos, visibleLayerNeg, hiddenLayerNeg,
                            RowError(visibleLayerPos, hiddenLayerPos,
                                     visibleLayerNeg, hiddenLayerNeg)) :
           neg \in GibbsChain(w, data, gibbsSteps) } :
    pos \in ReadProbabilities(getHiddenLayer(w, Arr(data))) }

\* errors.push(error) made only for a row with an observed value.
PushErrorIfObserved(errors, r) ==
  IF \A t \in 1..Len(r.data) : Lt0(r.data[t]) THEN errors
  ELSE Append(errors, r.error)

\* errors.push(error)
PushError(errors, r) == Append(errors, r.error)

\* What a call of train did: the value it returned or the error it threw,
\* this.weights after it, whether it called _setInitWeights, and the rows it
\* went through.
TrainEnd(status, value, w, initialized, log) ==
  [status |-> status, value |-> value, weights |-> w,
   initialized |-> initialized, log |-> log]

\* dataset.forEach from row `from` (1-based) on: a row that throws ends the
\* call, and the updates of the rows before it stay in this.weights.
RECURSIVE ForEach(_, _, _, _, _, _, _, _)
ForEach(w, dataset, from, learningRate, gibbsSteps, initialized, errors, log) ==
  IF from > Len(dataset) THEN {TrainEnd("ok", errors, w, initialized, log)}
  ELSE UNION {
         IF r.status # "ok"
           THEN {TrainEnd(r.status, <<>>, w, initialized, Append(log, r))}
           ELSE ForEach(Matrix(r.after), dataset, from + 1, learningRate,
                        gibbsSteps, initialized, PushError(errors, r),
                        Append(log, r)) :
         r \in TrainRow(w, dataset[from], learningRate, gibbsSteps) }

\* train: the set of its possible outcomes.
train(w, dataset, learningRate, gibbsSteps, hiddenNodes) ==
  UNION {
    IF init.status # "ok"
      THEN {TrainEnd(init.status, <<>>, init.weights, FALSE, <<>>)}
      ELSE ForEach(init.weights, dataset, 1, learningRate, gibbsSteps,
                   init.initialized, <<>>, <<>>) :
    init \in TrainInit(w, dataset, hiddenNodes) }

--------------------------------------------------------------------------
\* The engine and its callers

\* weights:   this.weights of the engine.
\* lastCall:  the last call made on the engine, with this.weights as they
\*            were when it was made, its arguments and its outcome (for
\*            train: the rows gone through, each with the weights before and
\*            after its update).
\* calls:     the number of calls made so far.
\* initCount: the number of calls of _setInitWeights so far.
VARIABLES weights, lastCall, calls, initCount

vars == <<weights, lastCall, calls, initCount>>

\* The values of a visible unit a caller supplies: the sentinel -1, 0 and 1.
Values == {Fin(-Scale), Zero, One}

\* The arrays of at most n elements of S.
ArraysUpTo(S, n) == UNION { [1..k -> S] : k \in 0..n }

\* The datasets a caller passes to train: rows of any length up to
\* MaxVisible, so that rows of different lengths meet in one dataset.
Datasets == ArraysUpTo(ArraysUpTo(Values, MaxVisible), MaxRows)

\* learningRate: 0.1, as in src/examples/binary-system.js.
LearningRates == {Fin(Scale \div 10)}

\* The arguments a caller passes to a sampling operation: arrays of states, of
\* every length up to one more than the largest layer, and a non-array.
SampleInputs ==
  {NotArray} \cup { Arr(a) : a \in ArraysUpTo({Zero, One}, MaxVisible + 1) }

\* The matrices a caller passes to the constructor: one visible and one
\* hidden unit, with finite weights.
InitialWeights ==
  { <<<<Null, Zero>>, <<Fin(-Ln2), Fin(StandardDeviation)>>>> }

\* The last call made on the engine: the operation, this.weights when it was
\* made, its arguments, and its outcome.
Call(op, before, dataset, learningRate, gibbsSteps, hiddenNodes, input, out) ==
  [op |-> op, before |-> before, dataset |-> dataset, learningRate |-> learningRate,
   gibbsSteps |-> gibbsSteps, hiddenNodes |-> hiddenNodes, input |-> input,
   status |-> out.status, value |-> out.value,
   initialized |-> out.initialized, log |-> out.log]

\* new RBM(weights)
Init ==
  /\ weights \in {Undefined} \cup { Matrix(m) : m \in InitialWeights }
  /\ lastCall = Call("construct", Undefined, <<>>, Zero, 0, 0, NotArray,
                     TrainEnd("ok", <<>>, weights, FALSE, <<>>))
  /\ calls = 0
  /\ initCount = 0

\* A call of train.
Train ==
  /\ calls < MaxCalls
  /\ \E dataset \in Datasets, learningRate \in LearningRates,
        gibbsSteps \in 0..MaxGibbs, hiddenNodes \in 0..MaxHidden :
       \E out \in train(weights, dataset, learningRate, gibbsSteps, hiddenNodes) :
         /\ weights' = out.weights
         /\ lastCall' = Call("train", weights, dataset, learningRate, gibbsSteps,
                             hiddenNodes, NotArray, out)
         /\ initCount' = initCount + (IF out.initialized THEN 1 ELSE 0)
  /\ calls' = calls + 1

\* A call of getHiddenLayer from outside.
GetHiddenLayer ==
  /\ calls < MaxCalls
  /\ \E input \in SampleInputs :
       \E out \in getHiddenLayer(weights, input) :
         lastCall' = Call("getHiddenLayer", weights, <<>>, Zero, 0, 0, input,
                          TrainEnd(out.status, out.value, weights, FALSE, <<>>))
  /\ calls' = calls + 1
  /\ UNCHANGED <<weights, initCount>>

\* A call of getVisibleLayer from outside.
GetVisibleLayer ==
  /\ calls < MaxCalls
  /\ \E input \in SampleInputs :
       \E out \in getVisibleLayer(weights, input) :
         lastCall' = Call("getVisibleLayer", weights, <<>>, Zero, 0, 0, input,
                          TrainEnd(out.status, out.value, weights, FALSE, <<>>))
  /\ calls' = calls + 1
  /\ UNCHANGED <<weights, initCount>>

Next == Train \/ GetHiddenLayer \/ GetVisibleLayer

Spec == Init /\ [][Next]_vars

--------------------------------------------------------------------------
\* Properties

\* The visible and the hidden unit count of a weight matrix.
VisibleCount(m) == Len(m) - 1

HiddenCount(m) == Len(m[1]) - 1

\* The rows the last call of train went through and finished.
DoneRows == { r \in 1..Len(lastCall.log) : lastCall.log[r].status = "ok" }

\* visibleLayerPos of a row of the log, the bias added.
VisiblePos(e) == <<One>> \o e.data

\* An argument a sampling operation must refuse for a layer of `size` units.
WrongInput(input, size) ==
  ~input.isArray \/ Len(input.items) # size \/ Len(input.items) = 0

\* Two matrices with as many rows, and as many cells in each row.
SameShape(a, b) ==
  Len(a) = Len(b) /\ \A i \in 1..Len(a) : Len(a[i]) = Len(b[i])

\* C1: a call of train on an engine that has no weight matrix, with
\* hiddenNodes omitted or 0, never returns normally, whatever the dataset
\* (the empty dataset included).
C1_TrainWithoutWeightsOrCountFails ==
  (lastCall.op = "train" /\ ~lastCall.before.set /\ lastCall.hiddenNodes = 0)
    => lastCall.status # "ok"

\* C2: on an engine with a (V+1)x(H+1) weight matrix, getHiddenLayer with an
\* input that is not an array, is empty or has not V elements, and
\* getVisibleLayer with one that is not an array, is empty or has not H
\* elements, throw the Invalid parameter error and leave the weight matrix as
\* it was.
C2_WrongSamplingInputRefused ==
  /\ (/\ lastCall.op = "getHiddenLayer"
      /\ lastCall.before.set
      /\ WrongInput(lastCall.input, VisibleCount(lastCall.before.m)))
       => (lastCall.status = "InvalidArgument" /\ weights = lastCall.before)
  /\ (/\ lastCall.op = "getVisibleLayer"
      /\ lastCall.before.set
      /\ WrongInput(lastCall.input, HiddenCount(lastCall.before.m)))
       => (lastCall.status = "InvalidArgument" /\ weights = lastCall.before)

\* C2, its case: both operations have refused an input (getVisibleLayer a
\* non-empty array of the wrong length) on an engine that has weights.
C2_Witness ==
  /\ lastCall.op = "getVisibleLayer"
  /\ lastCall.before.set
  /\ lastCall.input.isArray
  /\ Len(lastCall.input.items) > 0
  /\ Len(lastCall.input.items) # HiddenCount(lastCall.before.m)
  /\ lastCall.status = "InvalidArgument"
  /\ calls > 1

\* C3: a call of train (gibbsSteps >= 1) on an engine with weights, whose
\* dataset has at any position a row of a length other than V, throws the
\* Invalid parameter error and leaves the weight matrix equal to what it was
\* before the call.
C3_FailedTrainRestoresWeights ==
  (/\ lastCall.op = "train"
   /\ lastCall.before.set
   /\ lastCall.gibbsSteps >= 1
   /\ \E r \in 1..Len(lastCall.dataset) :
        Len(lastCall.dataset[r]) # VisibleCount(lastCall.before.m))
    => (lastCall.status = "InvalidArgument" /\ weights = lastCall.before)

\* C4: once the weight matrix exists, no call (train with any arguments,
\* returning or throwing, or a sampling call) changes its number of rows or
\* the length of any row; nor does the update of any row of a dataset.
C4_ShapeNeverChanges ==
  /\ lastCall.before.set
       => (weights.set /\ SameShape(weights.m, lastCall.before.m))
  /\ \A r \in 1..Len(lastCall.log) :
       SameShape(lastCall.log[r].after, lastCall.log[r].before)

\* C4, its case: a call of train on an engine with weights went through two
\* rows, returned, and changed the weights.
C4_Witness ==
  /\ lastCall.op = "train"
  /\ lastCall.before.set
  /\ lastCall.status = "ok"
  /\ Len(lastCall.dataset) >= 2
  /\ weights # lastCall.before

\* C5: _setInitWeights is called at most once in the life of an engine, and
\* by a call of train exactly when the engine has no weights, a hidden count
\* is passed and the dataset has a first row; it then builds a matrix of
\* (V+1) rows of (H+1) cells, V the length of the first row and H the hidden
\* count.  A call of train on an engine that has weights never calls it,
\* whatever hidden count it passes.
C5_InitOnceAndLazily ==
  /\ initCount <= 1
  /\ lastCall.op = "train" =>
       /\ lastCall.initialized <=>
            (/\ ~lastCall.before.set
             /\ lastCall.hiddenNodes # 0
             /\ Len(lastCall.dataset) > 0)
       /\ lastCall.initialized =>
            /\ weights.set
            /\ VisibleCount(weights.m) = Len(lastCall.dataset[1])
            /\ \A i \in 1..Len(weights.m) :
                 Len(weights.m[i]) = lastCall.hiddenNodes + 1

\* C5, its case: after a call that built the weights, a later call of train
\* passed a hidden count again and returned.
C5_Witness ==
  /\ initCount = 1
  /\ lastCall.op = "train"
  /\ lastCall.before.set
  /\ ~lastCall.initialized
  /\ lastCall.hiddenNodes # 0
  /\ lastCall.status = "ok"
  /\ weights # lastCall.before

\* C6: every visible bias weight weights[i][0], i >= 1, that the lazy
\* initialisation of train produces is a finite number, whatever the dataset.
C6_InitialVisibleBiasFinite ==
  (lastCall.op = "train" /\ lastCall.initialized)
    => \A i \in 2..Len(lastCall.log[1].before) :
         IsFinite(lastCall.log[1].before[i][1])

C8_NegativeVisibleRowUntouched ==
  \A r \in DoneRows :
    LET e == lastCall.log[r]
        visibleLayerPos == VisiblePos(e)
        Term(i, j) ==
          LET d == Sub(Binarized(visibleLayerPos[i]),
                       Mul(e.visibleLayerNeg[i], e.hiddenLayerNeg[j]))
          IN  Mul(d, d)
    IN  /\ \A i \in 2..Len(visibleLayerPos) :
             Lt0(visibleLayerPos[i]) => e.after[i] = e.before[i]
        /\ \A i \in 1..Len(visibleLayerPos) :
             ~Lt0(visibleLayerPos[i]) =>
               \A j \in 1..Len(e.before[i]) :
                 e.after[i][j] =
                   Add(e.before[i][j],
                       Mul(lastCall.learningRate,
                           Sub(Mul(visibleLayerPos[i], e.hiddenLayerPos[j]),
                               Mul(e.visibleLayerNeg[i], e.hiddenLayerNeg[j]))))
        /\ e.error =
             SumSeq([i \in 1..Len(visibleLayerPos) |->
                       IF Lt0(visibleLayerPos[i]) THEN Zero
                       ELSE SumSeq([j \in 1..Len(e.hiddenLayerPos) |-> Term(i, j)])])

\* C8, its case: train updated the weights for a row whose visible value is
\* the sentinel, and the bias row changed.
C8_Witness ==
  \E r \in DoneRows :
    /\ Len(lastCall.log[r].data) >= 1
    /\ Lt0(lastCall.log[r].data[1])
    /\ lastCall.log[r].after[1] # lastCall.log[r].before[1]
    /\ lastCall.log[r].after[2] = lastCall.log[r].before[2]

\* C9: the error train returns for a row is the sum, over the pairs (i, j)
\* the update touches, of (b_i - visibleNegativeProbability_i)^2, b_i being 1
\* when the visible value at i is truthy and 0 otherwise, and the probability
\* of the bias unit being 1.
C9_ErrorIsReconstructionError ==
  \A r \in DoneRows :
    LET e == lastCall.log[r]
        visibleLayerPos == VisiblePos(e)
        Term(i) ==
          LET d == Sub(Binarized(visibleLayerPos[i]), e.visibleLayerNeg[i])
          IN  Mul(d, d)
    IN  e.error =
          SumSeq([i \in 1..Len(visibleLayerPos) |->
                    IF Lt0(visibleLayerPos[i]) THEN Zero
                    ELSE SumSeq([j \in 1..Len(e.hiddenLayerPos) |-> Term(i)])])

\* C10: in a call of train with gibbsSteps = 1, the hidden probabilities of
\* the negative statistics equal those of the positive phase for every row,
\* the update of no row changes a hidden bias weight weights[0][j], j >= 1,
\* and a call that built the weights leaves every hidden bias weight at its
\* initial value 0.
C10_HiddenBiasStaysZero ==
  (lastCall.op = "train" /\ lastCall.gibbsSteps = 1)
    => /\ \A r \in DoneRows :
            /\ lastCall.log[r].hiddenLayerNeg = lastCall.log[r].hiddenLayerPos
            /\ \A j \in 2..Len(lastCall.log[r].before[1]) :
                 lastCall.log[r].after[1][j] = lastCall.log[r].before[1][j]
       /\ lastCall.initialized =>
            \A j \in 2..Len(weights.m[1]) : weights.m[1][j] = Zero

====
